---- MODULE Spec2Model ----
(***************************************************************************)
(* Model of src-tauri/src/lib.rs of the video downloader: the job          *)
(* supervisor (start_download, cancel_download, the supervising task and   *)
(* the stream readers) and the dependency provisioner (download_deps,      *)
(* download_file, extract_binary, make_executable).                        *)
(*                                                                         *)
(* Tauri runs every async command as its own task on a multi-threaded      *)
(* runtime, so calls of start_download and cancel_download interleave at   *)
(* every step that touches shared state.                                   *)
(***************************************************************************)
EXTENDS Integers, Sequences, FiniteSets, TLC

\* ---------------------------------------------------------------- bounds
\* Number of start_download calls (one job per call).
MaxJobs == 2
\* Number of cancel_download calls.
MaxCancels == 1
\* Number of output lines the readers of all jobs forward.
MaxLines == 1
\* Number of download_deps calls.
MaxRuns == 2
\* Largest body a download delivers, in bytes.
MaxTotal == 2
\* Largest number of chunks a download delivers.
MaxChunks == 2
\* Longest line handed to parse_progress, in characters.
MaxLen == 4
\* Number of lines the process writes to its two streams together.
MaxWrites == 2
\* Longest entry name of an archive, in characters.
MaxName == 2
\* Largest number of entries of an archive.
MaxEntries == 2

\* download_deps: the progress range of the yt-dlp download ends, and that of
\* the ffmpeg download begins, at 0.12; the ffmpeg download ends at 0.93.
\* Progress values are kept in hundredths.
YtdlpEnd == 12
FfmpegEnd == 93

Jobs == 1..MaxJobs
\* Exit codes a downloader process can end with.
ExitCodes == {0, 1}

VARIABLES
    \* ---- job supervisor
    cancel_tx,   \* AppState.cancel_tx: 0 is None, j is Some(sender of job j)
    pc,          \* pc[j]: position of the j-th start_download call
    took,        \* took[j]: the sender call j took out of the slot (0 once it returned Ok)
    child,       \* child[j]: the process spawned by call j
    status,      \* status[j]: ExitStatus::code() of the process, <<>> is None
    cancel_rx,   \* cancel_rx[j]: state of job j's oneshot channel
    task,        \* task[j]: the supervising task of job j
    branch,      \* branch[j]: the select! arm the supervising task ran
    cancelled,   \* cancelled[j]: the AtomicBool of job j
    complete,    \* complete[j]: number of download-complete events of job j
    errors,      \* errors[j]: payloads of the download-error events of job j
    logs,        \* logs[j]: number of download-log events of job j
    ncancel,     \* number of cancel_download calls made
    cancel_ret,  \* what the last cancel_download call returned
    cancel_send, \* what tx.send(()) returned in that call ("none": slot empty)
    seen,        \* seen[j]: jobs whose process was running when call j began
    \* ---- dependency provisioner
    dpc,         \* position of the download_deps call ("idle": none running)
    runs,        \* number of download_deps calls begun
    dret,        \* what the last download_deps call returned
    dir,         \* whether bin_dir exists
    file,        \* file[f]: "absent", "partial" (created, content incomplete), "complete"
    mode,        \* mode[f]: whether f is marked executable
    had,         \* had[f]: whether f existed when the running call began
    target,      \* the file download_file writes
    total,       \* download_file: content_length().unwrap_or(0)
    received,    \* download_file: bytes received
    chunks,      \* download_file: chunks received
    fetched,     \* files the running call has requested over the network
    extracts,    \* extract_binary calls of the running call
    setup,       \* events the running call has emitted, in order
    \* ---- progress parser
    line,        \* the line handed to the body of the stdout reader's loop
    parsed,      \* what parse_progress(line) gave, <<"todo">> before the call
    emitted,     \* the events the loop body emitted for the line
    \* ---- stream readers
    alive,       \* whether the process still holds the write ends of its pipes
    written,     \* written[s]: the lines the process wrote to stream s
    nread,       \* nread[s]: the lines the reader of s has taken from the pipe
    rpc,         \* rpc[s]: position of the reader task of s
    events,      \* the events the two readers emitted, in order
    \* ---- archive extraction
    archive,     \* the entry names of the archive, in index order
    extracted    \* extract_binary: what it returned, and the content of dest

jobVars == <<cancel_tx, pc, took, child, status, cancel_rx, task, branch,
             cancelled, complete, errors, logs, ncancel, cancel_ret,
             cancel_send, seen>>

provVars == <<dpc, runs, dret, dir, file, mode, had, target, total, received,
              chunks, fetched, extracts, setup>>

parseVars == <<line, parsed, emitted>>

readVars == <<alive, written, nread, rpc, events>>

zipVars == <<archive, extracted>>

otherVars == <<parseVars, readVars, zipVars>>

vars == <<jobVars, provVars, otherVars>>

RECURSIVE SumTo(_, _)
SumTo(f, n) == IF n = 0 THEN 0 ELSE f[n] + SumTo(f, n - 1)

\* ------------------------------------------------------- oneshot channel
\* cancel_rx[j] is "none" before the channel exists, "open" while nothing was
\* sent, "sent" once the value waits in it, "closed" once the sender was
\* dropped unused, and "dropped" once the task that owns the receiver ended.
RxAlive(ch, j) == ch[j] \notin {"none", "dropped"}

\* What tx.send(()) returns: Err when the receiver is gone.
SendResult(ch, j) ==
    IF j = 0 THEN "none" ELSE IF RxAlive(ch, j) THEN "Ok" ELSE "Err"

\* tx.send(()): stores the value unless the receiver is gone (then Err, which
\* both callers ignore).
Send(ch, j) ==
    IF j # 0 /\ RxAlive(ch, j) /\ ch[j] = "open"
    THEN [ch EXCEPT ![j] = "sent"]
    ELSE ch

\* A variant in which a replaced sender is leaked, not dropped.
DropTx_Leak(ch, j) == ch

\* Dropping a sender that was never used closes the channel.
DropTx(ch, j) ==
    IF j # 0 /\ RxAlive(ch, j) /\ ch[j] = "open"
    THEN [ch EXCEPT ![j] = "closed"]
    ELSE ch

\* ------------------------------------------------------------------ Init
InitJobs ==
    /\ cancel_tx = 0
    /\ pc = [j \in Jobs |-> "idle"]
    /\ took = [j \in Jobs |-> 0]
    /\ child = [j \in Jobs |-> "none"]
    /\ status = [j \in Jobs |-> <<>>]
    /\ cancel_rx = [j \in Jobs |-> "none"]
    /\ task = [j \in Jobs |-> "none"]
    /\ branch = [j \in Jobs |-> "none"]
    /\ cancelled = [j \in Jobs |-> FALSE]
    /\ complete = [j \in Jobs |-> 0]
    /\ errors = [j \in Jobs |-> <<>>]
    /\ logs = [j \in Jobs |-> 0]
    /\ ncancel = 0
    /\ cancel_ret = "none"
    /\ cancel_send = "none"
    /\ seen = [j \in Jobs |-> {}]

Files == {"ytdlp", "zip", "ffmpeg"}

\* The provisioner before its first call, on an installation where yt-dlp is
\* in state y, ffmpeg in state f and bin_dir exists iff d.
InitProv(y, f, d) ==
    /\ dpc = "idle"
    /\ runs = 0
    /\ dret = <<"none">>
    /\ file = [x \in Files |-> CASE x = "ytdlp" -> y
                                  [] x = "ffmpeg" -> f
                                  [] OTHER -> "absent"]
    /\ mode = [x \in Files |-> CASE x = "ytdlp" -> y = "complete"
                                  [] x = "ffmpeg" -> f = "complete"
                                  [] OTHER -> FALSE]
    /\ dir = d
    /\ had = [x \in Files |-> FALSE]
    /\ target = "ytdlp"
    /\ total = 0
    /\ received = 0
    /\ chunks = 0
    /\ fetched = {}
    /\ extracts = 0
    /\ setup = <<>>

Streams == {"stdout", "stderr"}

\* No line handed to the loop body yet.
InitParse == line = <<>> /\ parsed = <<"todo">> /\ emitted = <<>>

\* No process yet: nothing written, no reader at work.
InitRead ==
    /\ alive = FALSE
    /\ written = [s \in Streams |-> <<>>]
    /\ nread = [s \in Streams |-> 0]
    /\ rpc = [s \in Streams |-> "none"]
    /\ events = <<>>

\* No archive downloaded yet.
NotExtracted == [result |-> <<"todo">>, dest |-> <<>>]
InitZip == archive = <<>> /\ extracted = NotExtracted

InitOther == InitParse /\ InitRead /\ InitZip

\* A fresh installation.
Init == InitJobs /\ InitProv("absent", "absent", FALSE) /\ InitOther

\* A fresh installation, or one where a binary is already in place, marked
\* executable by the run that installed it.
InitDeps ==
    /\ InitJobs
    /\ \E y, f \in {"absent", "complete"} : \E d \in BOOLEAN :
          /\ (y = "complete" \/ f = "complete") => d
          /\ InitProv(y, f, d)
    /\ InitOther

\* -------------------------------------------------------- start_download
\* lib.rs 116-122: lock, take the sender out of the slot, signal it.
\* Calls are numbered in the order they begin.
PreemptStep(j) ==
    /\ pc[j] = "idle"
    /\ \A i \in 1..(j - 1) : pc[i] # "idle"
    /\ took' = [took EXCEPT ![j] = cancel_tx]
    /\ cancel_rx' = Send(cancel_rx, cancel_tx)
    /\ cancel_tx' = 0
    /\ pc' = [pc EXCEPT ![j] = "mkdir"]
    /\ UNCHANGED <<child, status, task, branch, cancelled, complete, errors,
                   logs, ncancel, cancel_ret, cancel_send>>
    /\ UNCHANGED <<provVars, otherVars>>

Preempt(j) == PreemptStep(j) /\ UNCHANGED seen

\* The same step, with the observer noting which processes ran at that moment.
PreemptObserved(j) ==
    /\ PreemptStep(j)
    /\ seen' = [seen EXCEPT ![j] = {a \in Jobs : child[a] = "running"}]

\* lib.rs 144-145: create_dir_all(&output_path), Ok.
CreateDirOk(j) ==
    /\ pc[j] = "mkdir"
    /\ pc' = [pc EXCEPT ![j] = "spawn"]
    /\ UNCHANGED <<cancel_tx, took, child, status, cancel_rx, task, branch,
                   cancelled, complete, errors, logs, ncancel, cancel_ret, cancel_send, seen>>
    /\ UNCHANGED <<provVars, otherVars>>

\* lib.rs 144-145: create_dir_all fails, the call returns Err.
CreateDirFail(j) ==
    /\ pc[j] = "mkdir"
    /\ pc' = [pc EXCEPT ![j] = "err_dir"]
    /\ UNCHANGED <<cancel_tx, took, child, status, cancel_rx, task, branch,
                   cancelled, complete, errors, logs, ncancel, cancel_ret, cancel_send, seen>>
    /\ UNCHANGED <<provVars, otherVars>>

\* lib.rs 147-155: Command::spawn, Ok: the process runs from here on.
SpawnOk(j) ==
    /\ pc[j] = "spawn"
    /\ child' = [child EXCEPT ![j] = "running"]
    /\ pc' = [pc EXCEPT ![j] = "store"]
    /\ UNCHANGED <<cancel_tx, took, status, cancel_rx, task, branch,
                   cancelled, complete, errors, logs, ncancel, cancel_ret, cancel_send, seen>>
    /\ UNCHANGED <<provVars, otherVars>>

\* A variant that has stored the sender before it spawns.
SpawnFail_AfterStore(j) ==
    /\ pc[j] = "spawn"
    /\ pc' = [pc EXCEPT ![j] = "err_spawn"]
    /\ cancel_rx' = [DropTx(cancel_rx, cancel_tx) EXCEPT ![j] = "closed"]
    /\ cancel_tx' = j
    /\ UNCHANGED <<took, child, status, task, branch, cancelled, complete,
                   errors, logs, ncancel, cancel_ret, cancel_send, seen>>
    /\ UNCHANGED <<provVars, otherVars>>

\* lib.rs 147-152: spawn fails, the call returns Err.
SpawnFail(j) ==
    /\ pc[j] = "spawn"
    /\ pc' = [pc EXCEPT ![j] = "err_spawn"]
    /\ UNCHANGED <<cancel_tx, took, child, status, cancel_rx, task, branch,
                   cancelled, complete, errors, logs, ncancel, cancel_ret, cancel_send, seen>>
    /\ UNCHANGED <<provVars, otherVars>>

\* lib.rs 157-209: a fresh channel; its sender replaces the slot's content and
\* a sender that was there is dropped; the two readers and the supervising
\* task are spawned and the call returns Ok. Nothing after the lock of line
\* 158 suspends, and the spawned tasks run on their own from here.
Launch(j) ==
    /\ pc[j] = "store"
    /\ cancel_rx' = [DropTx(cancel_rx, cancel_tx) EXCEPT ![j] = "open"]
    /\ cancel_tx' = j
    /\ task' = [task EXCEPT ![j] = "racing"]
    /\ pc' = [pc EXCEPT ![j] = "ok"]
    /\ took' = [took EXCEPT ![j] = 0]
    /\ UNCHANGED <<child, status, branch, cancelled, complete, errors, logs,
                   ncancel, cancel_ret, cancel_send, seen>>
    /\ UNCHANGED <<provVars, otherVars>>

\* What the j-th start_download call returned.
Returned(j) ==
    CASE pc[j] = "ok" -> "Ok"
      [] pc[j] \in {"err_dir", "err_spawn"} -> "Err"
      [] OTHER -> "pending"

\* ------------------------------------------------------------ the process
\* The process ends by itself, with an exit code or by a signal (no code).
ProcExit(j) ==
    /\ child[j] = "running"
    /\ \E st \in {<<c>> : c \in ExitCodes} \cup {<<>>} :
           status' = [status EXCEPT ![j] = st]
    /\ child' = [child EXCEPT ![j] = "exited"]
    /\ UNCHANGED <<cancel_tx, pc, took, cancel_rx, task, branch, cancelled,
                   complete, errors, logs, ncancel, cancel_ret, cancel_send, seen>>
    /\ UNCHANGED <<provVars, otherVars>>

\* ------------------------------------------------------------ the readers
\* lib.rs 162-179: a reader forwards one line as download-log. The lines were
\* written while the process ran; the pipe keeps them after it ended.
EmitLog(j) ==
    /\ task[j] # "none"
    /\ SumTo(logs, MaxJobs) < MaxLines
    /\ logs' = [logs EXCEPT ![j] = @ + 1]
    /\ UNCHANGED <<cancel_tx, pc, took, child, status, cancel_rx, task, branch,
                   cancelled, complete, errors, ncancel, cancel_ret, cancel_send, seen>>
    /\ UNCHANGED <<provVars, otherVars>>

\* ---------------------------------------------------- the supervising task
\* status.code().unwrap_or(d)
UnwrapOr(st, d) == IF st = <<>> THEN d ELSE st[1]

\* format!("yt-dlp exited with code {}", code)
ExitMessage(code) == <<"yt-dlp exited with code", code>>

\* e.to_string() of the error child.wait() returned
WaitErrorMessage == <<"wait failed">>

\* A variant that reads a missing exit code as success.
CompleteAfterExit_NoneIsZero(n, res, st) ==
    IF res = "Ok" /\ UnwrapOr(st, 0) = 0 THEN n + 1 ELSE n

\* lib.rs 189-200: the download-complete events after the exit arm ran.
CompleteAfterExit(n, res, st) ==
    IF res = "Ok" /\ st = <<0>> THEN n + 1 ELSE n

\* A variant that reports the exit code whatever it is.
ErrorsAfterExit_NoElse(errs, res, st) ==
    IF res = "Ok"
    THEN Append(errs, ExitMessage(UnwrapOr(st, -1)))
    ELSE Append(errs, WaitErrorMessage)

\* lib.rs 189-200: the download-error events after the exit arm ran.
ErrorsAfterExit(errs, res, st) ==
    IF res = "Ok"
    THEN IF st = <<0>> THEN errs ELSE Append(errs, ExitMessage(UnwrapOr(st, -1)))
    ELSE Append(errs, WaitErrorMessage)

\* lib.rs 187-201: child.wait() resolved first: with the exit status, or with
\* an error. The task ends and its receiver is dropped.
SupExit(j) ==
    /\ task[j] = "racing"
    /\ child[j] = "exited"
    /\ \E res \in {"Ok", "Err"} :
         /\ branch' = [branch EXCEPT ![j] = IF res = "Ok" THEN "exit" ELSE "wait_err"]
         /\ IF cancelled[j]
            THEN UNCHANGED <<complete, errors>>
            ELSE /\ complete' = [complete EXCEPT
                                    ![j] = CompleteAfterExit(@, res, status[j])]
                 /\ errors' = [errors EXCEPT
                                  ![j] = ErrorsAfterExit(@, res, status[j])]
    /\ task' = [task EXCEPT ![j] = "done"]
    /\ cancel_rx' = [cancel_rx EXCEPT ![j] = "dropped"]
    /\ UNCHANGED <<cancel_tx, pc, took, child, status, cancelled,
                   logs, ncancel, cancel_ret, cancel_send, seen>>
    /\ UNCHANGED <<provVars, otherVars>>

\* A variant that leaves the process alone.
Kill_Nothing(ch, j) == ch

\* child.kill().await: SIGKILL and reap; a process that already ended is left
\* as it is and the error is ignored.
Kill(ch, j) == IF ch[j] = "running" THEN [ch EXCEPT ![j] = "killed"] ELSE ch

\* lib.rs 202-205: the receiver resolved first, with the signal or with the
\* sender dropped (the pattern `_` takes both).
SupCancel(j) ==
    /\ task[j] = "racing"
    /\ cancel_rx[j] \in {"sent", "closed"}
    /\ cancelled' = [cancelled EXCEPT ![j] = TRUE]
    /\ child' = Kill(child, j)
    /\ branch' = [branch EXCEPT ![j] = "cancel"]
    /\ task' = [task EXCEPT ![j] = "done"]
    /\ cancel_rx' = [cancel_rx EXCEPT ![j] = "dropped"]
    /\ UNCHANGED <<cancel_tx, pc, took, status, complete, errors,
                   logs, ncancel, cancel_ret, cancel_send, seen>>
    /\ UNCHANGED <<provVars, otherVars>>

\* -------------------------------------------------------- cancel_download
\* A variant that treats an empty slot as an error.
cancel_download_ErrWhenEmpty ==
    /\ ncancel < MaxCancels
    /\ cancel_rx' = Send(cancel_rx, cancel_tx)
    /\ cancel_tx' = 0
    /\ ncancel' = ncancel + 1
    /\ cancel_ret' = IF SendResult(cancel_rx, cancel_tx) = "Ok" THEN "Ok" ELSE "Err"
    /\ cancel_send' = SendResult(cancel_rx, cancel_tx)
    /\ UNCHANGED <<pc, took, child, status, task, branch, cancelled, complete,
                   errors, logs, seen>>
    /\ UNCHANGED <<provVars, otherVars>>

\* lib.rs 212-219: lock, take the sender out of the slot, signal it, Ok(()).
cancel_download ==
    /\ ncancel < MaxCancels
    /\ cancel_rx' = Send(cancel_rx, cancel_tx)
    /\ cancel_tx' = 0
    /\ ncancel' = ncancel + 1
    /\ cancel_ret' = "Ok"
    /\ cancel_send' = SendResult(cancel_rx, cancel_tx)
    /\ UNCHANGED <<pc, took, child, status, task, branch, cancelled, complete,
                   errors, logs, seen>>
    /\ UNCHANGED <<provVars, otherVars>>

\* ------------------------------------------------------------------ Next
\* The steps of the j-th start_download call after its first block.
start_download(j) ==
    \/ CreateDirOk(j)
    \/ CreateDirFail(j)
    \/ SpawnOk(j)
    \/ SpawnFail(j)
    \/ Launch(j)

\* The steps of everything else.
Background ==
    \/ \E j \in Jobs : start_download(j)
    \/ \E j \in Jobs : ProcExit(j)
    \/ \E j \in Jobs : EmitLog(j)
    \/ \E j \in Jobs : SupExit(j)
    \/ \E j \in Jobs : SupCancel(j)
    \/ cancel_download

Next ==
    \/ \E j \in Jobs : Preempt(j)
    \/ Background

Spec == Init /\ [][Next]_vars

\* The same machine with the observer variable `seen` recording.
NextObserved ==
    \/ \E j \in Jobs : PreemptObserved(j)
    \/ Background

SpecObserved == Init /\ [][NextObserved]_vars

\* ======================================================= job supervisor
\* The terminal events of job j, and whether it has emitted anything.
Terminals(j) == complete[j] + Len(errors[j])
Emitted(j) == logs[j] > 0 \/ Terminals(j) > 0
Failed(j) == pc[j] \in {"err_dir", "err_spawn"}

\* C1 (as claimed): whenever a start_download call b begins while the process
\* of job a is still running, the supervising task of a never runs the
\* natural-exit arm, and a emits no download-complete or download-error once b
\* has emitted an event of its own.
C1_Preemption ==
    [][\A b \in Jobs : \A a \in seen'[b] :
          /\ branch'[a] \notin {"exit", "wait_err"}
          /\ Emitted(b) => (complete'[a] = complete[a] /\ errors'[a] = errors[a])
      ]_vars

\* C2 (as claimed): once the supervising task of a job whose process exited is
\* over, exit code 0 has given exactly one download-complete and no
\* download-error, and any other code exactly one download-error carrying the
\* code (-1 when there is none) and no download-complete. (Read in the
\* claim's favour: a job whose wait failed is left out.)
C2_ExitCodeMapping ==
    \A j \in Jobs :
        (task[j] = "done" /\ child[j] = "exited" /\ branch[j] # "wait_err") =>
            IF status[j] = <<0>>
            THEN complete[j] = 1 /\ errors[j] = <<>>
            ELSE complete[j] = 0
                 /\ errors[j] = <<ExitMessage(UnwrapOr(status[j], -1))>>

\* C2 (amended): the mapping holds for the jobs whose supervising task ran the
\* natural-exit arm with the exit status; a failed wait gives exactly one
\* download-error with the wait error; the cancellation arm gives no terminal
\* event; and no terminal event exists before the task is over.
C2_ExitCodeMappingOnExitArm ==
    \A j \in Jobs :
        CASE branch[j] = "exit" ->
                 /\ child[j] = "exited"
                 /\ IF status[j] = <<0>>
                    THEN complete[j] = 1 /\ errors[j] = <<>>
                    ELSE complete[j] = 0
                         /\ errors[j] = <<ExitMessage(UnwrapOr(status[j], -1))>>
          [] branch[j] = "wait_err" ->
                 complete[j] = 0 /\ errors[j] = <<WaitErrorMessage>>
          [] OTHER -> complete[j] = 0 /\ errors[j] = <<>>

\* C2 witness: one job exited with code 0 and completed, another ended without
\* an exit code and reported -1.
C2_Witness ==
    \E j, k \in Jobs :
        /\ branch[j] = "exit" /\ status[j] = <<0>> /\ complete[j] = 1
        /\ branch[k] = "exit" /\ status[k] = <<>>
        /\ errors[k] = <<ExitMessage(-1)>>

\* C3 (as claimed): a cancel_download call made while a job's process is
\* spawned and has not ended reaches that job's supervising task: right after
\* the call the job's channel holds the signal (or is closed).
C3_CancelNeverLost ==
    [][cancel_download =>
          \A j \in Jobs :
              child[j] = "running" => cancel_rx'[j] \in {"sent", "closed"}
      ]_vars

\* C4 (as claimed): at most one spawned process is both still running and not
\* yet sent a cancellation signal.
C4_AtMostOneActive ==
    Cardinality({j \in Jobs : child[j] = "running" /\ cancel_rx[j] # "sent"}) <= 1

\* C5: every job emits at most one terminal event: never download-complete and
\* download-error both, never one of them twice.
C5_AtMostOneTerminal == \A j \in Jobs : Terminals(j) <= 1

\* C5 witness: with a cancel call made and both jobs started, one job has
\* completed and the other has reported an error.
C5_Witness ==
    /\ ncancel >= 1
    /\ \E j, k \in Jobs : complete[j] = 1 /\ Len(errors[k]) = 1

\* C6: a cancel_download call that finds the slot empty, or holding the sender
\* of a job whose supervising task is over, returns Ok, emits no event, kills
\* no process, signals no task, and leaves the slot empty.
C6_CancelWhenIdle ==
    [][(cancel_download /\ (cancel_tx = 0 \/ task[cancel_tx] = "done")) =>
          /\ cancel_ret' = "Ok"
          /\ cancel_tx' = 0
          /\ complete' = complete /\ errors' = errors /\ logs' = logs
          /\ child' = child
          /\ cancel_rx' = cancel_rx
      ]_vars

\* C6 witness: job 1 finished by itself, and the cancel call made afterwards
\* found its sender with the receiver gone.
C6_Witness ==
    /\ branch[1] = "exit" /\ complete[1] = 1
    /\ pc[2] = "idle"
    /\ cancel_ret = "Ok" /\ cancel_send = "Err" /\ cancel_tx = 0

\* C7 (as claimed): a start_download call that fails has returned Err, launched
\* no task, emitted no event and performed no slot mutation: it took nothing
\* out of the slot and stored nothing in it.
C7_FailedStartLeavesSlot ==
    \A j \in Jobs :
        Failed(j) =>
            /\ Returned(j) = "Err"
            /\ task[j] = "none" /\ ~Emitted(j)
            /\ cancel_rx[j] = "none" /\ cancel_tx # j
            /\ took[j] = 0

\* C7 (amended): a start_download call that fails has returned Err, spawned no
\* process, launched no task, emitted no event and stored no sender; its first
\* block has already run, so a sender it found in the slot is gone from
\* the slot and the job that sender belongs to has been signalled.
C7_FailedStartStoresNothing ==
    \A j \in Jobs :
        Failed(j) =>
            /\ Returned(j) = "Err"
            /\ child[j] = "none" /\ task[j] = "none" /\ ~Emitted(j)
            /\ cancel_rx[j] = "none" /\ cancel_tx # j
            /\ took[j] # 0 =>
                   /\ cancel_tx # took[j]
                   /\ cancel_rx[took[j]] \in {"sent", "dropped"}

\* C7 witness: a call failed at spawn after its first block had signalled the
\* running job 1, whose process was then killed.
C7_Witness ==
    /\ pc[2] = "err_spawn" /\ took[2] = 1
    /\ branch[1] = "cancel" /\ child[1] = "killed"

\* =================================================== dependency provisioner
\* Progress values are exact fractions <<num, den>>; the f64 arithmetic of
\* download_file rounds monotonically and yields 0.12 and 0.93 exactly at the
\* ends of the two ranges.
Frac(n, d) == <<n, d>>
Leq(p, q) == p[1] * q[2] <= q[1] * p[2]

\* A variant that leaves the offset of the range out.
Progress_NoOffset(start, end, recv, tot) ==
    Frac(recv * (end - start), 100 * tot)

\* lib.rs 257-258: p = start + received / total * (end - start), start and end
\* given in hundredths.
Progress(start, end, recv, tot) ==
    Frac(start * tot + recv * (end - start), 100 * tot)

\* The range download_deps passes to download_file for each target.
RangeOf(t) == IF t = "ytdlp" THEN <<0, YtdlpEnd>> ELSE <<YtdlpEnd, FfmpegEnd>>

TaskEvent(msg) == <<"setup-task", msg>>
ProgressEvent(p) == <<"setup-progress", p>>
DoneEvent == <<"setup-done">>

\* A variant that never finds a path.
Exists_Never(f) == FALSE

\* Path::exists()
Exists(f) == file[f] # "absent"

\* lib.rs 291-299: make_executable sets mode 0o755 if the metadata of the path
\* can be read, that is, if the file (state fl) is there.
make_executable(md, fl, f) ==
    IF fl[f] # "absent" THEN [md EXCEPT ![f] = TRUE] ELSE md

\* The `?` of download_deps: the call returns Err naming the step that failed.
Fail(step) ==
    /\ dret' = <<"Err", step>>
    /\ dpc' = "idle"

\* lib.rs 54-56: the call begins; create_dir_all creates bin_dir or finds it.
DepsBegin ==
    /\ dpc = "idle"
    /\ runs < MaxRuns
    /\ runs' = runs + 1
    /\ dir' = TRUE
    /\ dpc' = "ytdlp"
    /\ dret' = <<"pending">>
    /\ had' = [f \in Files |-> file[f] # "absent"]
    /\ fetched' = {}
    /\ extracts' = 0
    /\ setup' = <<>>
    /\ UNCHANGED <<file, mode, target, total, received, chunks>>
    /\ UNCHANGED <<jobVars, otherVars>>

\* lib.rs 56: create_dir_all fails (bin_dir is not there and cannot be made).
DepsBeginFail ==
    /\ dpc = "idle"
    /\ runs < MaxRuns
    /\ ~dir
    /\ runs' = runs + 1
    /\ Fail("dir")
    /\ had' = [f \in Files |-> file[f] # "absent"]
    /\ fetched' = {}
    /\ extracts' = 0
    /\ setup' = <<>>
    /\ UNCHANGED <<dir, file, mode, target, total, received, chunks>>
    /\ UNCHANGED <<jobVars, otherVars>>

\* lib.rs 59, 71: the binary is there, its block is skipped.
Skip ==
    /\ \/ dpc = "ytdlp" /\ Exists("ytdlp") /\ dpc' = "ffmpeg"
       \/ dpc = "ffmpeg" /\ Exists("ffmpeg") /\ dpc' = "finish"
    /\ UNCHANGED <<runs, dret, dir, file, mode, had, target, total, received,
                   chunks, fetched, extracts, setup>>
    /\ UNCHANGED <<jobVars, otherVars>>

\* lib.rs 59-66, 71-83: the binary is missing: setup-task, then download_file
\* is entered for yt-dlp itself or for ffmpeg.zip.
StartDownload ==
    /\ \/ /\ dpc = "ytdlp" /\ ~Exists("ytdlp")
          /\ target' = "ytdlp"
          /\ setup' = Append(setup, TaskEvent("Downloading yt-dlp"))
       \/ /\ dpc = "ffmpeg" /\ ~Exists("ffmpeg")
          /\ target' = "zip"
          /\ setup' = Append(setup, TaskEvent("Downloading ffmpeg"))
    /\ dpc' = "get"
    /\ UNCHANGED <<runs, dret, dir, file, mode, had, total, received, chunks,
                   fetched, extracts>>
    /\ UNCHANGED <<jobVars, otherVars>>

\* lib.rs 243-245: reqwest::get answers; the length is known (1..MaxTotal) or
\* not (0).
GetOk ==
    /\ dpc = "get"
    /\ \E t \in 0..MaxTotal : total' = t
    /\ received' = 0
    /\ chunks' = 0
    /\ fetched' = fetched \cup {target}
    /\ dpc' = "create"
    /\ UNCHANGED <<runs, dret, dir, file, mode, had, target, extracts, setup>>
    /\ UNCHANGED <<jobVars, otherVars>>

\* lib.rs 243: reqwest::get fails.
GetFail ==
    /\ dpc = "get"
    /\ fetched' = fetched \cup {target}
    /\ Fail(target)
    /\ UNCHANGED <<runs, dir, file, mode, had, target, total, received, chunks,
                   extracts, setup>>
    /\ UNCHANGED <<jobVars, otherVars>>

\* lib.rs 247-249: File::create makes the destination, empty.
CreateOk ==
    /\ dpc = "create"
    /\ file' = [file EXCEPT ![target] = "partial"]
    /\ dpc' = "stream"
    /\ UNCHANGED <<runs, dret, dir, mode, had, target, total, received, chunks,
                   fetched, extracts, setup>>
    /\ UNCHANGED <<jobVars, otherVars>>

\* lib.rs 247-249: File::create fails.
CreateFail ==
    /\ dpc = "create"
    /\ Fail(target)
    /\ UNCHANGED <<runs, dir, file, mode, had, target, total, received, chunks,
                   fetched, extracts, setup>>
    /\ UNCHANGED <<jobVars, otherVars>>

\* lib.rs 252-260: a chunk of n bytes arrives and is written; with a known
\* length the body never exceeds it, and setup-progress is emitted.
Chunk ==
    /\ dpc = "stream"
    /\ chunks < MaxChunks
    /\ \E n \in 0..MaxTotal :
          /\ received + n <= (IF total > 0 THEN total ELSE MaxTotal)
          /\ received' = received + n
          /\ setup' = IF total > 0
                      THEN Append(setup, ProgressEvent(
                               Progress(RangeOf(target)[1], RangeOf(target)[2],
                                        received + n, total)))
                      ELSE setup
    /\ chunks' = chunks + 1
    /\ UNCHANGED <<dpc, runs, dret, dir, file, mode, had, target, total,
                   fetched, extracts>>
    /\ UNCHANGED <<jobVars, otherVars>>

\* lib.rs 253-254: the stream yields an error, or write_all fails.
ChunkFail ==
    /\ dpc = "stream"
    /\ Fail(target)
    /\ UNCHANGED <<runs, dir, file, mode, had, target, total, received, chunks,
                   fetched, extracts, setup>>
    /\ UNCHANGED <<jobVars, otherVars>>

\* lib.rs 262: the stream ended and flush fails.
FlushFail ==
    /\ dpc = "stream"
    /\ total > 0 => received = total
    /\ Fail(target)
    /\ UNCHANGED <<runs, dir, file, mode, had, target, total, received, chunks,
                   fetched, extracts, setup>>
    /\ UNCHANGED <<jobVars, otherVars>>

\* lib.rs 262-263, then 67 or 85-86: the stream ended (never short of a known
\* length) and flush succeeded, so download_file returns Ok; yt-dlp is marked
\* executable, or the extraction of ffmpeg.zip is announced with progress 0.93.
DownloadDone ==
    /\ dpc = "stream"
    /\ total > 0 => received = total
    /\ file' = [file EXCEPT ![target] = "complete"]
    /\ IF target = "ytdlp"
       THEN /\ mode' = make_executable(mode, file', "ytdlp")
            /\ dpc' = "ffmpeg"
            /\ UNCHANGED setup
       ELSE /\ setup' = setup \o <<TaskEvent("Extracting ffmpeg"),
                                   ProgressEvent(Frac(FfmpegEnd, 100))>>
            /\ dpc' = "extract"
            /\ UNCHANGED mode
    /\ UNCHANGED <<runs, dret, dir, had, target, total, received, chunks,
                   fetched, extracts>>
    /\ UNCHANGED <<jobVars, otherVars>>

\* A variant that marks ffmpeg executable although extraction failed.
ExtractFail_MarksExecutable ==
    /\ dpc = "extract"
    /\ extracts' = extracts + 1
    /\ \E why \in {"open", "not found", "create", "copy"} :
          file' = IF why = "copy"
                  THEN [file EXCEPT !["ffmpeg"] = "partial"]
                  ELSE file
    /\ mode' = [mode EXCEPT !["ffmpeg"] = TRUE]
    /\ Fail("extract")
    /\ UNCHANGED <<runs, dir, had, target, total, received, chunks, fetched,
                   setup>>
    /\ UNCHANGED <<jobVars, otherVars>>

\* lib.rs 88-95, 271-288: extract_binary fails: the archive cannot be opened,
\* holds no entry of that name, the destination cannot be created, or the copy
\* breaks off and leaves the destination incomplete. ffmpeg.zip stays.
ExtractFail ==
    /\ dpc = "extract"
    /\ extracts' = extracts + 1
    /\ \E why \in {"open", "not found", "create", "copy"} :
          file' = IF why = "copy"
                  THEN [file EXCEPT !["ffmpeg"] = "partial"]
                  ELSE file
    /\ Fail("extract")
    /\ UNCHANGED <<runs, dir, mode, had, target, total, received, chunks,
                   fetched, setup>>
    /\ UNCHANGED <<jobVars, otherVars>>

\* lib.rs 88-97, 271-286: extract_binary copies the entry to ffmpeg_path, the
\* archive is removed and ffmpeg is marked executable.
ExtractOk ==
    /\ dpc = "extract"
    /\ extracts' = extracts + 1
    /\ file' = [file EXCEPT !["ffmpeg"] = "complete", !["zip"] = "absent"]
    /\ mode' = make_executable(mode, file', "ffmpeg")
    /\ dpc' = "finish"
    /\ UNCHANGED <<runs, dret, dir, had, target, total, received, chunks,
                   fetched, setup>>
    /\ UNCHANGED <<jobVars, otherVars>>

\* lib.rs 100-102: setup-progress 1.0, setup-done, Ok(()).
Finish ==
    /\ dpc = "finish"
    /\ setup' = setup \o <<ProgressEvent(Frac(100, 100)), DoneEvent>>
    /\ dret' = <<"Ok">>
    /\ dpc' = "idle"
    /\ UNCHANGED <<runs, dir, file, mode, had, target, total, received, chunks,
                   fetched, extracts>>
    /\ UNCHANGED <<jobVars, otherVars>>

\* lib.rs 233-264
download_file ==
    \/ GetOk
    \/ GetFail
    \/ CreateOk
    \/ CreateFail
    \/ Chunk
    \/ ChunkFail
    \/ FlushFail

\* lib.rs 53-103
download_deps ==
    \/ DepsBegin
    \/ DepsBeginFail
    \/ Skip
    \/ StartDownload
    \/ download_file
    \/ DownloadDone
    \/ ExtractFail
    \/ ExtractOk
    \/ Finish

NextDeps == download_deps

SpecDeps == InitDeps /\ [][NextDeps]_vars

\* ------------------------------------------------ claims on provisioning
IsProgress(e) == e[1] = "setup-progress"
ProgressAt == {i \in 1..Len(setup) : IsProgress(setup[i])}
Emits(e) == \E i \in 1..Len(setup) : setup[i] = e

\* C8: within one download_deps run the setup-progress values lie in [0,1]
\* and never decrease, and setup-done comes right after a setup-progress of 1.
C8_ProgressMonotone ==
    /\ \A i \in ProgressAt :
          Leq(Frac(0, 1), setup[i][2]) /\ Leq(setup[i][2], Frac(1, 1))
    /\ \A i, k \in ProgressAt : i < k => Leq(setup[i][2], setup[k][2])
    /\ \A i \in 1..Len(setup) :
          setup[i] = DoneEvent =>
              /\ i > 1
              /\ IsProgress(setup[i - 1])
              /\ Leq(Frac(1, 1), setup[i - 1][2])
              /\ Leq(setup[i - 1][2], Frac(1, 1))

\* C8 witness: both binaries were missing, both downloads reported progress
\* chunk by chunk, and the run ended with setup-done.
C8_Witness ==
    /\ fetched = {"ytdlp", "zip"}
    /\ Cardinality(ProgressAt) >= 6
    /\ Emits(DoneEvent)

\* C9: download_deps skips every binary whose path exists when the call
\* begins; when both exist the call fetches nothing, extracts nothing, emits
\* setup-progress 1.0 and then setup-done and nothing else, and returns Ok.
C9_Idempotence ==
    /\ had["ytdlp"] =>
          "ytdlp" \notin fetched /\ ~Emits(TaskEvent("Downloading yt-dlp"))
    /\ had["ffmpeg"] =>
          /\ "zip" \notin fetched /\ extracts = 0
          /\ ~Emits(TaskEvent("Downloading ffmpeg"))
    /\ (had["ytdlp"] /\ had["ffmpeg"] /\ dpc = "idle") =>
          /\ dret = <<"Ok">>
          /\ setup = <<ProgressEvent(Frac(100, 100)), DoneEvent>>

\* C9 witness: a repeated call that found both binaries has returned Ok.
C9_Witness ==
    /\ runs >= 2 /\ dpc = "idle" /\ dret = <<"Ok">>
    /\ had["ytdlp"] /\ had["ffmpeg"]
    /\ fetched = {} /\ extracts = 0

\* C10: a download_deps call in which a step failed has returned Err, ran no
\* later step, emitted no setup-done and left the binary of the failed step
\* unmarked; a binary an earlier step of the call completed is in place,
\* marked executable.
C10_FailurePolicy ==
    dret[1] = "Err" =>
        /\ dpc = "idle"
        /\ ~Emits(DoneEvent)
        /\ dret[2] = "dir" => (setup = <<>> /\ fetched = {} /\ extracts = 0)
        /\ dret[2] = "ytdlp" =>
              /\ ~mode["ytdlp"]
              /\ "zip" \notin fetched /\ extracts = 0
              /\ ~Emits(TaskEvent("Downloading ffmpeg"))
        /\ dret[2] \in {"zip", "extract"} =>
              /\ ~mode["ffmpeg"] /\ ~mode["zip"]
              /\ ~had["ytdlp"] => (file["ytdlp"] = "complete" /\ mode["ytdlp"])
        /\ dret[2] = "zip" =>
              /\ extracts = 0 /\ file["ffmpeg"] = "absent"
              /\ ~Emits(TaskEvent("Extracting ffmpeg"))

\* C10 witness: yt-dlp was downloaded by this call, then the extraction of
\* ffmpeg broke off.
C10_Witness ==
    /\ dret = <<"Err", "extract">>
    /\ ~had["ytdlp"] /\ file["ytdlp"] = "complete" /\ mode["ytdlp"]
    /\ file["ffmpeg"] = "partial" /\ ~mode["ffmpeg"]

\* =============================================== job supervisor, continued
\* C14: once the cancellation arm has run in a job's supervising task, the
\* job has no download-complete and no download-error and never gets one,
\* its process is not running any more, and the task is over.
C14_CancelArmIsSilent ==
    \A j \in Jobs :
        branch[j] = "cancel" =>
            /\ complete[j] = 0 /\ errors[j] = <<>>
            /\ child[j] \in {"killed", "exited"}
            /\ task[j] = "done"
            /\ ~ENABLED SupExit(j)

\* C14 witness: cancel_download signalled the running job 1, whose task took
\* the cancellation arm and killed the process.
C14_Witness ==
    /\ ncancel = 1 /\ cancel_send = "Ok"
    /\ branch[1] = "cancel" /\ child[1] = "killed" /\ task[1] = "done"
    /\ pc[2] = "idle"

\* C15 (as claimed): whenever start_download stores its fresh sender, the
\* slot is empty.
C15_StoreFindsSlotEmpty ==
    [][\A j \in Jobs : Launch(j) => cancel_tx = 0]_vars

\* C19 (as claimed): a job whose sender was dropped unsignalled ends by the
\* cancellation arm of its supervising task, with its process killed and no
\* terminal event.
C19_OrphanIsCancelled ==
    [][\A j \in Jobs :
          (cancel_rx[j] = "closed" /\ task'[j] = "done") =>
              /\ branch'[j] = "cancel"
              /\ child'[j] = "killed"
              /\ complete'[j] = 0 /\ errors'[j] = <<>>
      ]_vars

\* C19 (amended): a supervised job whose sender is no longer in the slot has
\* been signalled or has seen its channel closed, and then the cancellation
\* arm of its task is ready to run; when that arm has run the process is not
\* running and there is no terminal event. (The natural-exit arm may still
\* run first if the process ended by itself.)
C19_OrphanStillStoppable ==
    \A j \in Jobs :
        /\ (task[j] = "racing" /\ cancel_tx # j) =>
               /\ cancel_rx[j] \in {"sent", "closed"}
               /\ ENABLED SupCancel(j)
        /\ cancel_rx[j] = "closed" => task[j] = "racing"
        /\ branch[j] = "cancel" =>
               /\ child[j] # "running"
               /\ complete[j] = 0 /\ errors[j] = <<>>

\* C19 witness: call 1 found the slot empty and nobody called cancel, so job
\* 2 was never signalled; call 1 stored its sender over that of job 2, and
\* the task of job 2 took the cancellation arm and killed the process.
C19_Witness ==
    /\ ncancel = 0 /\ cancel_tx = 1
    /\ branch[2] = "cancel" /\ child[2] = "killed"

\* C20 (as claimed): once a job has emitted download-complete or
\* download-error, it emits no further download-log (or download-progress,
\* which only follows a download-log of the same line).
C20_LogsBeforeTerminal ==
    [][\A j \in Jobs : Terminals(j) > 0 => logs'[j] = logs[j]]_vars

\* ============================================ provisioner, continued
\* lib.rs 39-42: readiness is the existence of both paths.
check_deps == Exists("ytdlp") /\ Exists("ffmpeg")

\* C18 (as claimed): with no download_deps call running, check_deps is true
\* only if both binaries were written by a step that ran to completion, and
\* it is false after a run that failed in the download of yt-dlp.
C18_ReadyMeansComplete ==
    /\ (dpc = "idle" /\ check_deps) =>
           (file["ytdlp"] = "complete" /\ file["ffmpeg"] = "complete")
    /\ (dpc = "idle" /\ dret = <<"Err", "ytdlp">>) => ~check_deps

\* ======================================================= progress parser
\* Lines are sequences of characters. Wide stands for a character that takes
\* two bytes in UTF-8 (such as 'é'); every other character takes one.
Wide == "E"
Digits == {"1", "5"}
Chars == Digits \cup {".", "%", "x", Wide}
Lines == UNION {[1..k -> Chars] : k \in 0..MaxLen}

Utf8Len(c) == IF c = Wide THEN 2 ELSE 1

RECURSIVE ByteLen(_)
ByteLen(s) == IF s = <<>> THEN 0 ELSE Utf8Len(Head(s)) + ByteLen(Tail(s))

\* The byte index at which the k-th character of s starts (Len(s) + 1: the end).
Offset(s, k) == ByteLen(SubSeq(s, 1, k - 1))

\* str::is_char_boundary
IsCharBoundary(s, b) == \E k \in 1..(Len(s) + 1) : Offset(s, k) = b

\* &s[..b] and &s[b..] for a byte index b that is a character boundary.
SliceTo(s, b) ==
    SubSeq(s, 1, (CHOOSE k \in 1..(Len(s) + 1) : Offset(s, k) = b) - 1)
SliceFrom(s, b) ==
    SubSeq(s, CHOOSE k \in 1..(Len(s) + 1) : Offset(s, k) = b, Len(s))

\* str::find(c): the byte index of the first c, <<>> is None.
find(s, c) ==
    LET at == {k \in 1..Len(s) : s[k] = c}
    IN IF at = {} THEN <<>>
       ELSE <<Offset(s, CHOOSE k \in at : \A m \in at : k <= m)>>

IsDigit(c) == c \in Digits
IsNumChar(c) == IsDigit(c) \/ c = "."
NotNumChar(c) == ~IsNumChar(c)

\* lib.rs 307: str::rfind(|c| !c.is_ascii_digit() && c != '.'): the byte index
\* at which the last such character starts, <<>> is None.
rfind(s) ==
    LET at == {k \in 1..Len(s) : NotNumChar(s[k])}
    IN IF at = {} THEN <<>>
       ELSE <<Offset(s, CHOOSE k \in at : \A m \in at : k >= m)>>

DigitValue(c) == IF c = "1" THEN 1 ELSE 5

RECURSIVE DigitsValue(_)
DigitsValue(s) ==
    IF s = <<>> THEN 0
    ELSE 10 * DigitsValue(SubSeq(s, 1, Len(s) - 1)) + DigitValue(s[Len(s)])

RECURSIVE Pow10(_)
Pow10(n) == IF n = 0 THEN 1 ELSE 10 * Pow10(n - 1)

\* str::parse::<f64> on a string of digits and dots: it accepts digits with
\* at most one dot and at least one digit ("5", "5.", ".5", "1.5").
ValidF64(s) ==
    /\ Len(SelectSeq(s, IsDigit)) >= 1
    /\ Len(s) - Len(SelectSeq(s, IsDigit)) <= 1

\* The number such a string denotes, as a fraction.
ValueF64(s) ==
    LET dots == {k \in 1..Len(s) : s[k] = "."}
        decimals == IF dots = {} THEN 0 ELSE Len(s) - (CHOOSE k \in dots : TRUE)
    IN Frac(DigitsValue(SelectSeq(s, IsDigit)), Pow10(decimals))

\* lib.rs 303-311. Slicing at a byte index inside a character panics.
parse_progress(l) ==
    LET pct_idx == find(l, "%")
    IN IF pct_idx = <<>> THEN <<"None">>
       ELSE LET before == SliceTo(l, pct_idx[1])
                found == rfind(before)
                num_start == IF found = <<>> THEN 0 ELSE found[1] + 1
            IN IF ~IsCharBoundary(before, num_start) THEN <<"panic">>
               ELSE IF ValidF64(SliceFrom(before, num_start))
                    THEN <<"Some", ValueF64(SliceFrom(before, num_start))>>
                    ELSE <<"None">>

LogEvent(l) == <<"download-log", l>>

\* lib.rs 166: pct / 100.0
DownloadProgress(pct) == <<"download-progress", Frac(pct[1], 100 * pct[2])>>

\* lib.rs 163-167: what the body of the stdout reader's loop emits for line
\* l: download-log, then download-progress if the parser gave a value.
LineEvents(l) ==
    IF parse_progress(l)[1] = "Some"
    THEN <<LogEvent(l), DownloadProgress(parse_progress(l)[2])>>
    ELSE <<LogEvent(l)>>

\* The loop body runs on the line.
ForwardLine ==
    /\ parsed = <<"todo">>
    /\ parsed' = parse_progress(line)
    /\ emitted' = LineEvents(line)
    /\ UNCHANGED line
    /\ UNCHANGED <<jobVars, provVars, readVars, zipVars>>

\* Any line of up to MaxLen characters may come out of the pipe.
InitLines ==
    /\ InitJobs /\ InitProv("absent", "absent", FALSE) /\ InitRead /\ InitZip
    /\ line \in Lines
    /\ parsed = <<"todo">>
    /\ emitted = <<>>

NextParse == ForwardLine

SpecParse == InitLines /\ [][NextParse]_vars

\* C11 (as claimed): every download-progress event carries a value in [0,1].
C11_ProgressInUnitInterval ==
    \A i \in 1..Len(emitted) :
        emitted[i][1] = "download-progress" =>
            /\ Leq(Frac(0, 1), emitted[i][2])
            /\ Leq(emitted[i][2], Frac(1, 1))

\* The maximal run of digits and dots that ends right before position i.
RunBefore(l, i) ==
    SubSeq(l, CHOOSE k \in 1..i :
                  /\ \A m \in k..(i - 1) : IsNumChar(l[m])
                  /\ \A h \in 1..(k - 1) :
                         \E m \in h..(i - 1) : NotNumChar(l[m]),
           i - 1)

\* What the claim says parse_progress returns.
ClaimedParse(l) ==
    LET at == {k \in 1..Len(l) : l[k] = "%"}
    IN IF at = {} THEN <<"None">>
       ELSE LET run == RunBefore(l, CHOOSE k \in at : \A m \in at : k <= m)
            IN IF ValidF64(run) THEN <<"Some", ValueF64(run)>> ELSE <<"None">>

\* C12 (as claimed): parse_progress returns the number written by the maximal
\* run of digits and '.' right before the first '%', and absent when there is
\* no '%' or the run is not a decimal.
C12_ParseProgress == parsed # <<"todo">> => parsed = ClaimedParse(line)

\* ========================================================= stream readers
\* Invalid stands for a byte sequence that is not UTF-8.
Invalid == "?"

\* The lines the process writes: one without '%', one with a progress value,
\* one on which parse_progress panics, one that is not UTF-8.
SampleLines == {<<"x">>, <<"5", "%">>, <<Wide, "%">>, <<Invalid>>}

IsUtf8(l) == \A k \in 1..Len(l) : l[k] # Invalid

\* A variant in which the reader of either stream parses progress.
AfterLog_Always(s) == "parse"

\* lib.rs 163-167 against 176-178: after download-log the stdout reader goes
\* on to parse_progress, the stderr reader to the next line.
AfterLog(s) == IF s = "stdout" THEN "parse" ELSE "read"

\* lib.rs 147-179: the process is spawned and a reader task is spawned on each
\* of its two pipes.
SpawnReaders ==
    /\ \A s \in Streams : rpc[s] = "none"
    /\ alive' = TRUE
    /\ rpc' = [s \in Streams |-> "read"]
    /\ UNCHANGED <<written, nread, events>>
    /\ UNCHANGED <<jobVars, provVars, parseVars, zipVars>>

\* The process writes a line to one of its streams.
WriteLine(s) ==
    /\ alive
    /\ Len(written["stdout"]) + Len(written["stderr"]) < MaxWrites
    /\ \E l \in SampleLines : written' = [written EXCEPT ![s] = Append(@, l)]
    /\ UNCHANGED <<alive, nread, rpc, events>>
    /\ UNCHANGED <<jobVars, provVars, parseVars, zipVars>>

\* The process exits or is killed: the write ends of the pipes close; what was
\* written stays readable.
CloseStreams ==
    /\ alive
    /\ alive' = FALSE
    /\ UNCHANGED <<written, nread, rpc, events>>
    /\ UNCHANGED <<jobVars, provVars, parseVars, zipVars>>

\* lib.rs 163-164, 176-177: next_line() gives Ok(Some(line)) and download-log
\* is emitted, or it gives Err for a line that is not UTF-8 and the loop ends.
ReadLine(s) ==
    /\ rpc[s] = "read"
    /\ nread[s] < Len(written[s])
    /\ nread' = [nread EXCEPT ![s] = @ + 1]
    /\ IF IsUtf8(written[s][nread[s] + 1])
       THEN /\ events' = Append(events, <<s, LogEvent(written[s][nread[s] + 1])>>)
            /\ rpc' = [rpc EXCEPT ![s] = AfterLog(s)]
       ELSE /\ rpc' = [rpc EXCEPT ![s] = "error"]
            /\ UNCHANGED events
    /\ UNCHANGED <<alive, written>>
    /\ UNCHANGED <<jobVars, provVars, parseVars, zipVars>>

\* lib.rs 165-167: parse_progress on the line just logged; download-progress
\* if it gave a value; a panic ends the task.
ParseLine(s) ==
    /\ rpc[s] = "parse"
    /\ LET got == parse_progress(written[s][nread[s]])
       IN /\ rpc' = [rpc EXCEPT ![s] = IF got = <<"panic">> THEN "panic" ELSE "read"]
          /\ events' = IF got[1] = "Some"
                       THEN Append(events, <<s, DownloadProgress(got[2])>>)
                       ELSE events
    /\ UNCHANGED <<alive, written, nread>>
    /\ UNCHANGED <<jobVars, provVars, parseVars, zipVars>>

\* lib.rs 163, 176: next_line() gives Ok(None) at end-of-stream, the loop ends.
EndOfStream(s) ==
    /\ rpc[s] = "read"
    /\ ~alive
    /\ nread[s] = Len(written[s])
    /\ rpc' = [rpc EXCEPT ![s] = "eof"]
    /\ UNCHANGED <<alive, written, nread, events>>
    /\ UNCHANGED <<jobVars, provVars, parseVars, zipVars>>

NextRead ==
    \/ SpawnReaders
    \/ \E s \in Streams : WriteLine(s)
    \/ CloseStreams
    \/ \E s \in Streams : ReadLine(s)
    \/ \E s \in Streams : ParseLine(s)
    \/ \E s \in Streams : EndOfStream(s)

SpecRead == Init /\ [][NextRead]_vars

FromStdout(e) == e[1] = "stdout"
FromStderr(e) == e[1] = "stderr"
EventsOf(s) ==
    IF s = "stdout" THEN SelectSeq(events, FromStdout)
    ELSE SelectSeq(events, FromStderr)
IsLog(e) == e[2][1] = "download-log"
LogsOf(s) == SelectSeq(EventsOf(s), IsLog)
ReaderOver(s) == rpc[s] \in {"eof", "error", "panic"}

\* C13 (as claimed): once the reader of a stream is over, every line written
\* to the stream has been emitted as exactly one download-log event. (Read in
\* the claim's favour: streams that carry UTF-8 only.)
C13_EveryLineLogged ==
    \A s \in Streams :
        (ReaderOver(s) /\ \A k \in 1..Len(written[s]) : IsUtf8(written[s][k])) =>
            /\ Len(LogsOf(s)) = Len(written[s])
            /\ \A k \in 1..Len(written[s]) :
                   LogsOf(s)[k] = <<s, LogEvent(written[s][k])>>

\* C16: the download-log events of a stream carry the lines of the stream in
\* the order written; on stdout every download-progress event comes right
\* after the download-log of the line it was parsed from, and the log of a
\* line with progress is followed by its download-progress before any other
\* stdout event; stderr gives no download-progress event.
C16_StreamOrder ==
    /\ \A s \in Streams :
          /\ Len(LogsOf(s)) <= Len(written[s])
          /\ \A k \in 1..Len(LogsOf(s)) :
                 LogsOf(s)[k] = <<s, LogEvent(written[s][k])>>
    /\ \A k \in 1..Len(EventsOf("stderr")) : IsLog(EventsOf("stderr")[k])
    /\ \A k \in 1..Len(EventsOf("stdout")) :
          LET ev == EventsOf("stdout")
          IN IF IsLog(ev[k])
             THEN parse_progress(ev[k][2][2])[1] = "Some" =>
                      IF k < Len(ev)
                      THEN ev[k + 1][2] =
                               DownloadProgress(parse_progress(ev[k][2][2])[2])
                      ELSE rpc["stdout"] = "parse"
             ELSE /\ k > 1
                  /\ IsLog(ev[k - 1])
                  /\ parse_progress(ev[k - 1][2][2])[1] = "Some"
                  /\ ev[k][2] = DownloadProgress(parse_progress(ev[k - 1][2][2])[2])

\* C16 witness: stdout carried a line with progress and then another line;
\* the events are the log of the first, its progress, the log of the second.
C16_Witness ==
    /\ Len(written["stdout"]) = 2
    /\ Len(events) = 3
    /\ events[1] = <<"stdout", LogEvent(<<"5", "%">>)>>
    /\ events[2] = <<"stdout", DownloadProgress(Frac(5, 1))>>
    /\ events[3] = <<"stdout", LogEvent(written["stdout"][2])>>

\* ===================================================== archive extraction
\* Entry names are sequences of characters; "f" stands for the name of the
\* binary, "/" separates path components. The content of entry i is i.
NameChars == {"f", "x", "/"}
EntryNames == UNION {[1..k -> NameChars] : k \in 0..MaxName}
Archives == UNION {[1..n -> EntryNames] : n \in 0..MaxEntries}
BinaryName == <<"f">>

\* A path without its trailing separators.
RECURSIVE TrimEnd(_)
TrimEnd(n) ==
    IF n # <<>> /\ n[Len(n)] = "/" THEN TrimEnd(SubSeq(n, 1, Len(n) - 1)) ELSE n

\* A variant that takes the whole entry name.
file_name_WholePath(n) == n

\* lib.rs 275-278: Path::new(&name).file_name().and_then(to_str).unwrap_or(""):
\* the last component of the path, trailing separators ignored, "" if none.
file_name(n) ==
    LET t == TrimEnd(n)
        seps == {k \in 1..Len(t) : t[k] = "/"}
    IN IF seps = {} THEN t
       ELSE SubSeq(t, (CHOOSE k \in seps : \A m \in seps : k >= m) + 1, Len(t))

\* lib.rs 273-288: the loop over the entries from index i on: the first entry
\* whose file name is binary_name is copied to dest and the function returns
\* Ok, dest holding the content of entry i; after the last entry it returns
\* Err naming binary_name, with dest never created (<<>>).
RECURSIVE ScanFrom(_, _, _)
ScanFrom(a, binary_name, i) ==
    IF i > Len(a)
    THEN [result |-> <<"Err", binary_name, "not found in archive">>, dest |-> <<>>]
    ELSE IF file_name(a[i]) = binary_name
    THEN [result |-> <<"Ok">>, dest |-> <<i>>]
    ELSE ScanFrom(a, binary_name, i + 1)

\* lib.rs 266-289, for an archive that opens and reads without I/O errors
\* (those are ExtractFail in the provisioner).
extract_binary(a, binary_name) == ScanFrom(a, binary_name, 1)

\* The call of lib.rs 89 on the downloaded archive.
Extract ==
    /\ extracted = NotExtracted
    /\ extracted' = extract_binary(archive, BinaryName)
    /\ UNCHANGED archive
    /\ UNCHANGED <<jobVars, provVars, parseVars, readVars>>

\* Any archive of up to MaxEntries entries may have been downloaded.
InitArchives ==
    /\ InitJobs /\ InitProv("absent", "absent", FALSE) /\ InitParse /\ InitRead
    /\ archive \in Archives
    /\ extracted = NotExtracted

NextZip == Extract

SpecZip == InitArchives /\ [][NextZip]_vars

\* The last path component of an entry name, read off its characters: what
\* lies between the last separator that has a non-separator after it and the
\* last non-separator.
LastComponent(n) ==
    LET Max(S) == CHOOSE k \in S : \A m \in S : k >= m
        e == Max({k \in 1..Len(n) : n[k] # "/"} \cup {0})
        b == Max({k \in 1..e : n[k] = "/"} \cup {0})
    IN SubSeq(n, b + 1, e)

\* C17: extract_binary copies the first entry, in index order, whose last
\* path component equals the requested name, whatever comes after it; an
\* entry whose name merely contains the requested name is not taken; with no
\* such entry it returns an error naming the binary and writes no file.
C17_ExtractFirstMatch ==
    extracted # NotExtracted =>
        LET matches == {i \in 1..Len(archive) :
                            LastComponent(archive[i]) = BinaryName}
        IN IF matches = {}
           THEN /\ extracted.result = <<"Err", BinaryName, "not found in archive">>
                /\ extracted.dest = <<>>
           ELSE /\ extracted.result = <<"Ok">>
                /\ Len(extracted.dest) = 1
                /\ extracted.dest[1] \in matches
                /\ \A i \in matches : extracted.dest[1] <= i

\* C17 witness: the first entry only contains the name, the second has it as
\* the last component of a longer path, and the second was copied.
C17_Witness ==
    /\ archive = << <<"x", "f">>, <<"/", "f">> >>
    /\ extracted = [result |-> <<"Ok">>, dest |-> <<2>>]

====
